---- MODULE Spec2Model ----
(***************************************************************************)
(* A model of the in-memory store of Ado21/BailFork: the ordered           *)
(* dictionary (src/src/Store/make-ordered-dictionary.ts), the object       *)
(* repository (src/src/Store/object-repository.ts) and the store with its  *)
(* event handlers and identifier helpers (src/unnamed/part_000).           *)
(*                                                                         *)
(* JavaScript strings are TLA+ strings; objects are functions from field   *)
(* names to values, an absent field being a name outside the DOMAIN.       *)
(***************************************************************************)
EXTENDS Integers, Sequences, FiniteSets, TLC

VARIABLES chats, messages, contacts, groupMetadata, presences, state,
          labels, labelAssociations, od, last, tasks, completed

vars == <<chats, messages, contacts, groupMetadata, presences, state,
          labels, labelAssociations, od, last, tasks, completed>>

\* tasks: the asynchronous calls (contacts.update, fetchImageUrl,
\* fetchGroupMetadata) suspended at their await, in the order they started.
\* completed: the identifiers for which a fetchImageUrl call has returned.

(***************************************************************************)
(* Objects and strings                                                     *)
(***************************************************************************)

\* The object with no fields, {}.
EmptyObj == <<>>

\* Object.assign(target, source): a shallow merge, the source's fields win.
Assign(target, source) ==
    [k \in (DOMAIN target) \cup (DOMAIN source) |->
        IF k \in DOMAIN source THEN source[k] ELSE target[k]]

\* delete obj[k] for every k of keys.
Without(obj, keys) == [k \in (DOMAIN obj) \ keys |-> obj[k]]

\* obj[k] = v.
Put(obj, k, v) == [x \in (DOMAIN obj) \cup {k} |-> IF x = k THEN v ELSE obj[x]]

\* The one-character string at position i (1-based) of s.
Char(s, i) == SubSeq(s, i, i)

\* s.indexOf(c), 1-based; 0 where JavaScript answers -1.
IndexOf(s, c) ==
    IF \E i \in 1..Len(s) : Char(s, i) = c
    THEN CHOOSE i \in 1..Len(s) :
            /\ Char(s, i) = c
            /\ \A j \in 1..(i - 1) : Char(s, j) # c
    ELSE 0

\* The characters the model's strings are made of, in collation order.
Alphabet == "_:.@0123456789abcdefghijklmnopqrstuvwxyz"

\* The place of each character in the collation order.
Rank ==
    [c \in {Char(Alphabet, i) : i \in 1..Len(Alphabet)} |-> IndexOf(Alphabet, c)]

\* a sorts strictly before b, given that they agree before position i.
RECURSIVE StrLessFrom(_, _, _)
StrLessFrom(a, b, i) ==
    IF i > Len(b) THEN FALSE
    ELSE IF i > Len(a) THEN TRUE
    ELSE IF Char(a, i) = Char(b, i) THEN StrLessFrom(a, b, i + 1)
    ELSE Rank[Char(a, i)] < Rank[Char(b, i)]

\* a sorts strictly before b.
StrLess(a, b) == StrLessFrom(a, b, 1)

\* a.localeCompare(b)
localeCompare(a, b) == IF a = b THEN 0 ELSE IF StrLess(a, b) THEN -1 ELSE 1

HexDigits == "0123456789abcdef"

\* n.toString(16)
RECURSIVE toString16(_)
toString16(n) ==
    IF n < 16 THEN Char(HexDigits, n + 1)
    ELSE toString16(n \div 16) \o Char(HexDigits, (n % 16) + 1)

\* s.padStart(width, c)
RECURSIVE padStart(_, _, _)
padStart(s, width, c) ==
    IF Len(s) >= width THEN s ELSE padStart(c \o s, width, c)

(***************************************************************************)
(* Identifiers: jidEncode, jidDecode, jidNormalizedUser                    *)
(***************************************************************************)

\* s.split(c)[0]
SplitHead(s, c) ==
    IF IndexOf(s, c) = 0 THEN s ELSE SubSeq(s, 1, IndexOf(s, c) - 1)

\* jidDecode(jid).server and .user; Decodable(jid) is "jidDecode(jid) is not
\* undefined".
Decodable(jid) == IndexOf(jid, "@") > 0

jidServer(jid) == SubSeq(jid, IndexOf(jid, "@") + 1, Len(jid))

jidUser(jid) ==
    SplitHead(SplitHead(SubSeq(jid, 1, IndexOf(jid, "@") - 1), ":"), "_")

\* jidEncode(user, server) with neither device nor agent.
jidEncode2(user, server) == user \o "@" \o server

jidNormalizedUser(jid) ==
    IF ~Decodable(jid) THEN ""
    ELSE jidEncode2(jidUser(jid),
                    IF jidServer(jid) = "c.us" THEN "s.whatsapp.net"
                    ELSE jidServer(jid))

\* s.split(c)[1]: the piece between the first c and the next one, as a
\* set; empty for undefined (s has no c).
SplitSecond(s, c) ==
    IF IndexOf(s, c) = 0 THEN {}
    ELSE {SplitHead(SubSeq(s, IndexOf(s, c) + 1, Len(s)), c)}

Digits == "0123456789"

\* parseInt(s) and +s of a string of decimal digits.
RECURSIVE parseInt(_)
parseInt(s) ==
    IF Len(s) = 0 THEN 0
    ELSE 10 * parseInt(SubSeq(s, 1, Len(s) - 1))
            + (IndexOf(Digits, Char(s, Len(s))) - 1)

\* `${n}` of a non-negative integer.
RECURSIVE numberToString(_)
numberToString(n) ==
    IF n < 10 THEN Char(Digits, n + 1)
    ELSE numberToString(n \div 10) \o Char(Digits, (n % 10) + 1)

\* WAJIDDomains
WHATSAPP == 0
LID == 1
HOSTED == 128
HOSTED_LID == 129

\* jidEncode(user, server, device, agent); device and agent are sets, empty
\* for an argument left out. !!n is false for 0.
jidEncode(user, server, device, agent) ==
    user
        \o (IF \E n \in agent : n # 0
            THEN "_" \o numberToString(CHOOSE n \in agent : TRUE) ELSE "")
        \o (IF \E n \in device : n # 0
            THEN ":" \o numberToString(CHOOSE n \in device : TRUE) ELSE "")
        \o "@" \o server

\* jidDecode(jid), for a jid with an "@"; device is a set, empty for
\* undefined.
jidDecode(jid) ==
    LET server == jidServer(jid)
        userCombined == SubSeq(jid, 1, IndexOf(jid, "@") - 1)
        userAgent == SplitHead(userCombined, ":")
        device == SplitSecond(userCombined, ":")
        agent == SplitSecond(userAgent, "_")
    IN  [server |-> server,
         user |-> SplitHead(userAgent, "_"),
         domainType |->
            IF server = "lid" THEN LID
            ELSE IF server = "hosted" THEN HOSTED
            ELSE IF server = "hosted.lid" THEN HOSTED_LID
            ELSE IF \E a \in agent : a # "" THEN parseInt(CHOOSE a \in agent : TRUE)
            ELSE WHATSAPP,
         device |-> {parseInt(d) : d \in {x \in device : x # ""}}]

(***************************************************************************)
(* Ordered dictionary of messages (makeOrderedDictionary(waMessageID)).    *)
(* array is the sequence; dict maps an identity to the position in array   *)
(* of the object the lookup holds for it.                                  *)
(***************************************************************************)

\* waMessageID(m) = m.key.id || ''
waMessageID(m) ==
    IF "id" \in DOMAIN m.key THEN m.key.id ELSE ""

makeMessagesDictionary == [array |-> <<>>, dict |-> EmptyObj]

\* get(id) !== undefined
odHas(d, id) == id \in DOMAIN d.dict

\* get(id), for an id the lookup holds
odGet(d, id) == d.array[d.dict[id]]

\* array.findIndex(i => idGetter(i) === id), 1-based; 0 for -1
findIndex(array, id) ==
    IF \E i \in 1..Len(array) : waMessageID(array[i]) = id
    THEN CHOOSE i \in 1..Len(array) :
            /\ waMessageID(array[i]) = id
            /\ \A j \in 1..(i - 1) : waMessageID(array[j]) # id
    ELSE 0

\* array.splice(idx, 1)
SpliceOut(array, idx) ==
    SubSeq(array, 1, idx - 1) \o SubSeq(array, idx + 1, Len(array))

\* The lookup after the object at position idx left the array.
ShiftDown(dict, idx) ==
    [k \in DOMAIN dict |-> IF dict[k] > idx THEN dict[k] - 1 ELSE dict[k]]

odUpdate(d, item) ==
    LET id == waMessageID(item)
        idx == findIndex(d.array, id)
    IN  IF idx > 0
        THEN [array |-> [d.array EXCEPT ![idx] = item],
              dict |-> Put(d.dict, id, idx)]
        ELSE d

\* The value update(item) returns.
odUpdateResult(d, item) == FALSE

odUpsert(d, item, mode) ==
    LET id == waMessageID(item)
    IN  IF odHas(d, id) THEN odUpdate(d, item)
        ELSE IF mode = "append"
        THEN [array |-> Append(d.array, item),
              dict |-> Put(d.dict, id, Len(d.array) + 1)]
        ELSE [array |-> <<item>> \o d.array,
              dict |-> Put([k \in DOMAIN d.dict |-> d.dict[k] + 1], id, 1)]

odRemove(d, item) ==
    LET id == waMessageID(item)
        idx == findIndex(d.array, id)
    IN  IF idx > 0
        THEN [array |-> SpliceOut(d.array, idx),
              dict |-> ShiftDown(Without(d.dict, {id}), idx)]
        ELSE d

odRemoveResult(d, item) == findIndex(d.array, waMessageID(item)) > 0

odUpdateAssign(d, id, update) ==
    IF odHas(d, id)
    THEN LET idx == d.dict[id]
             item == Assign(d.array[idx], update)
         IN  [array |-> [d.array EXCEPT ![idx] = item],
              dict |-> Put(Without(d.dict, {id}), waMessageID(item), idx)]
    ELSE d

odUpdateAssignResult(d, id) == odHas(d, id)

odClear(d) == [array |-> <<>>, dict |-> EmptyObj]

\* The predicates filter is called with in the model: keep the messages
\* whose status is not the given one.
Contain(item, status) == ~("status" \in DOMAIN item /\ item.status = status)

\* The position in the filtered array of the object at position idx.
KeptIndex(array, status, idx) ==
    Cardinality({j \in 1..idx : Contain(array[j], status)})

odFilter(d, status) ==
    LET gone == {waMessageID(d.array[i]) :
                    i \in {j \in 1..Len(d.array) : ~Contain(d.array[j], status)}}
        kept == Without(d.dict, gone)
    IN  [array |-> SelectSeq(d.array, LAMBDA m : Contain(m, status)),
         dict |-> [k \in DOMAIN kept |-> KeptIndex(d.array, status, kept[k])]]

odToJSON(d) == d.array

\* The last position of newItems holding identity id.
LastIndex(newItems, id) ==
    CHOOSE i \in 1..Len(newItems) :
        /\ waMessageID(newItems[i]) = id
        /\ \A j \in (i + 1)..Len(newItems) : waMessageID(newItems[j]) # id

odFromJSON(d, newItems) ==
    [array |-> newItems,
     dict |-> [id \in {waMessageID(newItems[i]) : i \in 1..Len(newItems)} |->
                  LastIndex(newItems, id)]]

(***************************************************************************)
(* The chat collection: a KeyedDB (@adiwajshing/keyed-db) under waChatKey. *)
(* Its code is not in the repository's files; only its declaration         *)
(* (part_000 lines 51-61) and its callers are. It is modelled from the     *)
(* specification's section 4.3 as the array all() returns, kept in the     *)
(* order of the comparator over the keys.                                  *)
(***************************************************************************)

Has(obj, k) == k \in DOMAIN obj

\* obj[k] is truthy, for a boolean field
IsTrue(obj, k) == Has(obj, k) /\ obj[k]

\* obj[k] is truthy, for a numeric field
NonZero(obj, k) == Has(obj, k) /\ obj[k] # 0

\* waChatKey(true).key(c)
waChatKey(c) ==
    (IF IsTrue(c, "pinned") THEN "1" ELSE "0")
    \o (IF IsTrue(c, "archived") THEN "0" ELSE "1")
    \o (IF NonZero(c, "conversationTimestamp")
        THEN padStart(toString16(c.conversationTimestamp), 8, "0") ELSE "")
    \o c.id

\* waChatKey(true).compare(k1, k2)
waChatKeyCompare(k1, k2) == localeCompare(k2, k1)

\* chats.get(id) !== undefined
kdbHas(array, id) == \E i \in 1..Len(array) : array[i].id = id

\* chats.get(id), for an id the collection holds
kdbGet(array, id) == array[CHOOSE i \in 1..Len(array) : array[i].id = id]

kdbDeleteById(array, id) == SelectSeq(array, LAMBDA c : c.id # id)

\* The insertion of one item at its place in the comparator's order.
kdbInsert(array, item) ==
    LET before == {i \in 1..Len(array) :
                      waChatKeyCompare(waChatKey(array[i]), waChatKey(item)) < 0}
        n == Cardinality(before)
    IN  SubSeq(array, 1, n) \o <<item>> \o SubSeq(array, n + 1, Len(array))

\* chats.upsert(item)
kdbUpsert(array, item) == kdbInsert(kdbDeleteById(array, item.id), item)

\* chats.insertIfAbsent(item)
kdbInsertIfAbsent(array, item) ==
    IF kdbHas(array, item.id) THEN array ELSE kdbInsert(array, item)

\* chats.update(id, fn), given the chat fn leaves: the position is re-derived
kdbUpdate(array, id, mutated) == kdbInsert(kdbDeleteById(array, id), mutated)

RECURSIVE kdbUpsertAll(_, _)
kdbUpsertAll(array, items) ==
    IF items = <<>> THEN array
    ELSE kdbUpsertAll(kdbUpsert(array, Head(items)), Tail(items))

RECURSIVE kdbInsertAllIfAbsent(_, _)
kdbInsertAllIfAbsent(array, items) ==
    IF items = <<>> THEN array
    ELSE kdbInsertAllIfAbsent(kdbInsertIfAbsent(array, Head(items)), Tail(items))

\* chats.fromJSON(items)
kdbFromJSON(items) == kdbUpsertAll(<<>>, items)

(***************************************************************************)
(* The store's handlers (bind), as functions of the store                  *)
(* s = [chats, messages, contacts, groupMetadata, presences, state,        *)
(*      labels, labelAssociations] and the event's payload.                *)
(***************************************************************************)

\* ev.on('chats.upsert')
onChatsUpsert(s, newChats) ==
    [s EXCEPT !.chats = kdbUpsertAll(s.chats, newChats)]

\* chatsUpdateMutator with a positive unreadCount replacing the stored one.
chatsUpdateMutatorReplacing(chat, update) == Assign(chat, update)

\* The callback chats.update applies to the stored chat (lines 172-177).
chatsUpdateMutator(chat, update) ==
    IF Has(update, "unreadCount") /\ update.unreadCount > 0
    THEN Assign(chat,
                Put(update, "unreadCount",
                    (IF Has(chat, "unreadCount") THEN chat.unreadCount ELSE 0)
                        + update.unreadCount))
    ELSE Assign(chat, update)

RECURSIVE chatsUpdateAll(_, _)
chatsUpdateAll(array, updates) ==
    IF updates = <<>> THEN array
    ELSE LET update == Head(updates)
         IN  chatsUpdateAll(
                IF kdbHas(array, update.id)
                THEN kdbUpdate(array, update.id,
                        chatsUpdateMutator(kdbGet(array, update.id), update))
                ELSE array,
                Tail(updates))

\* ev.on('chats.update')
onChatsUpdate(s, updates) ==
    [s EXCEPT !.chats = chatsUpdateAll(s.chats, updates)]

RECURSIVE chatsDeleteAll(_, _)
chatsDeleteAll(array, deletions) ==
    IF deletions = <<>> THEN array
    ELSE chatsDeleteAll(
            IF kdbHas(array, Head(deletions))
            THEN kdbDeleteById(array, Head(deletions)) ELSE array,
            Tail(deletions))

\* ev.on('chats.delete')
onChatsDelete(s, deletions) ==
    [s EXCEPT !.chats = chatsDeleteAll(s.chats, deletions)]

\* assertMessageList(jid): the lists, with an empty one made for jid if it
\* had none.
assertMessageList(lists, jid) ==
    IF jid \in DOMAIN lists THEN lists
    ELSE Put(lists, jid, makeMessagesDictionary)

\* toNumber(msg.messageTimestamp): 0 for a message without one.
messageTime(msg) ==
    IF Has(msg, "messageTimestamp") THEN msg.messageTimestamp ELSE 0

\* One turn of the loop of messages.upsert that synthesizes a chat whether
\* or not the chat exists.
messagesUpsertOneSynthesizing(s, msg, type) ==
    LET jid == jidNormalizedUser(msg.key.remoteJid)
        lists == assertMessageList(s.messages, jid)
        stored == [s EXCEPT !.messages =
                        Put(lists, jid, odUpsert(lists[jid], msg, "append"))]
    IN  IF type = "notify"
        THEN onChatsUpsert(stored,
                <<[id |-> jid, conversationTimestamp |-> messageTime(msg),
                   unreadCount |-> 1]>>)
        ELSE stored

\* One turn of the loop of messages.upsert (lines 221-228); ev.emit runs the
\* chats.upsert handler before it returns.
messagesUpsertOne(s, msg, type) ==
    LET jid == jidNormalizedUser(msg.key.remoteJid)
        lists == assertMessageList(s.messages, jid)
        stored == [s EXCEPT !.messages =
                        Put(lists, jid, odUpsert(lists[jid], msg, "append"))]
    IN  IF type = "notify" /\ ~kdbHas(s.chats, jid)
        THEN onChatsUpsert(stored,
                <<[id |-> jid, conversationTimestamp |-> messageTime(msg),
                   unreadCount |-> 1]>>)
        ELSE stored

RECURSIVE messagesUpsertAll(_, _, _)
messagesUpsertAll(s, newMessages, type) ==
    IF newMessages = <<>> THEN s
    ELSE messagesUpsertAll(messagesUpsertOne(s, Head(newMessages), type),
                           Tail(newMessages), type)

\* The chats.upsert payloads the loop of messages.upsert emits (lines
\* 224-228), in the order it emits them.
RECURSIVE synthesizedChats(_, _, _)
synthesizedChats(s, newMessages, type) ==
    IF newMessages = <<>> \/ type \notin {"append", "notify"} THEN <<>>
    ELSE LET msg == Head(newMessages)
             jid == jidNormalizedUser(msg.key.remoteJid)
             emitted ==
                IF type = "notify" /\ ~kdbHas(s.chats, jid)
                THEN <<[id |-> jid,
                        conversationTimestamp |-> messageTime(msg),
                        unreadCount |-> 1]>>
                ELSE <<>>
         IN  emitted \o synthesizedChats(messagesUpsertOne(s, msg, type),
                                         Tail(newMessages), type)

\* ev.on('messages.upsert')
onMessagesUpsert(s, newMessages, type) ==
    IF type \in {"append", "notify"}
    THEN messagesUpsertAll(s, newMessages, type)
    ELSE s

\* The patch messages.update hands to updateAssign: its status field is
\* dropped when the guard of lines 237-242 says so.
guardedUpdate(list, id, update) ==
    IF /\ NonZero(update, "status")
       /\ odHas(list, id)
       /\ NonZero(odGet(list, id), "status")
       /\ update.status <= odGet(list, id).status
    THEN Without(update, {"status"})
    ELSE update

\* One turn of the loop of messages.update (lines 236-246).
messagesUpdateOne(s, u) ==
    LET jid == jidNormalizedUser(u.key.remoteJid)
        lists == assertMessageList(s.messages, jid)
    IN  [s EXCEPT !.messages =
            Put(lists, jid,
                odUpdateAssign(lists[jid], u.key.id,
                               guardedUpdate(lists[jid], u.key.id, u.update)))]

RECURSIVE messagesUpdateAll(_, _)
messagesUpdateAll(s, updates) ==
    IF updates = <<>> THEN s
    ELSE messagesUpdateAll(messagesUpdateOne(s, Head(updates)), Tail(updates))

\* ev.on('messages.update')
onMessagesUpdate(s, updates) == messagesUpdateAll(s, updates)

\* The identifiers of a list of records.
IdsOf(items) == {items[i].id : i \in 1..Len(items)}

\* contactsUpsert(newContacts): the contacts it leaves
RECURSIVE contactsUpsert(_, _)
contactsUpsert(cs, newContacts) ==
    IF newContacts = <<>> THEN cs
    ELSE LET contact == Head(newContacts)
         IN  contactsUpsert(
                Put(cs, contact.id,
                    Assign(IF contact.id \in DOMAIN cs THEN cs[contact.id]
                           ELSE EmptyObj,
                           contact)),
                Tail(newContacts))

\* contactsUpsert(newContacts): the set oldContacts it returns
oldContacts(cs, newContacts) == (DOMAIN cs) \ IdsOf(newContacts)

\* ev.on('contacts.upsert')
onContactsUpsert(s, newContacts) ==
    [s EXCEPT !.contacts = contactsUpsert(s.contacts, newContacts)]

RECURSIVE historyPrependAll(_, _)
historyPrependAll(lists, newMessages) ==
    IF newMessages = <<>> THEN lists
    ELSE LET msg == Head(newMessages)
             jid == msg.key.remoteJid
             made == assertMessageList(lists, jid)
         IN  historyPrependAll(
                Put(made, jid, odUpsert(made[jid], msg, "prepend")),
                Tail(newMessages))

\* onHistorySet without the clearing of chats and message lists.
onHistorySetKeepingOld(s, p) ==
    IF p.syncType = "ON_DEMAND" THEN s
    ELSE [s EXCEPT
            !.chats = kdbInsertAllIfAbsent(s.chats, p.chats),
            !.contacts = Without(contactsUpsert(s.contacts, p.contacts),
                            IF p.isLatest
                            THEN oldContacts(s.contacts, p.contacts) ELSE {}),
            !.messages = historyPrependAll(s.messages, p.messages)]

\* onHistorySet without the removal of the contacts the sync does not name.
onHistorySetKeepingContacts(s, p) ==
    IF p.syncType = "ON_DEMAND" THEN s
    ELSE [s EXCEPT
            !.chats = kdbInsertAllIfAbsent(
                        IF p.isLatest THEN <<>> ELSE s.chats, p.chats),
            !.contacts = contactsUpsert(s.contacts, p.contacts),
            !.messages = historyPrependAll(
                            IF p.isLatest THEN EmptyObj ELSE s.messages,
                            p.messages)]

\* ev.on('messaging-history.set')
onHistorySet(s, p) ==
    IF p.syncType = "ON_DEMAND" THEN s
    ELSE [s EXCEPT
            !.chats = kdbInsertAllIfAbsent(
                        IF p.isLatest THEN <<>> ELSE s.chats, p.chats),
            !.contacts = Without(contactsUpsert(s.contacts, p.contacts),
                            IF p.isLatest
                            THEN oldContacts(s.contacts, p.contacts) ELSE {}),
            !.messages = historyPrependAll(
                            IF p.isLatest THEN EmptyObj ELSE s.messages,
                            p.messages)]

(***************************************************************************)
(* ObjectRepository: entityMap is a Map, modelled as the sequence of its   *)
(* entries [key, value] in insertion order.                                *)
(***************************************************************************)

maxSize == 1000

\* entityMap.has(id)
repoHas(entityMap, id) ==
    \E i \in 1..Len(entityMap) : entityMap[i].key = id

repoIndex(entityMap, id) ==
    CHOOSE i \in 1..Len(entityMap) : entityMap[i].key = id

\* findById(id), for an id the repository holds
findById(entityMap, id) == entityMap[repoIndex(entityMap, id)].value

\* findAll() and toJSON()
findAll(entityMap) == [i \in 1..Len(entityMap) |-> entityMap[i].value]

\* entityMap.set(id, entity): a known key keeps its place
mapSet(entityMap, id, entity) ==
    IF repoHas(entityMap, id)
    THEN [entityMap EXCEPT ![repoIndex(entityMap, id)].value = entity]
    ELSE Append(entityMap, [key |-> id, value |-> entity])

\* cleanup() that drops the newest half of the entries.
cleanupNewest(entityMap) ==
    IF Len(entityMap) > maxSize
    THEN SubSeq(entityMap, 1, Len(entityMap) - ((Len(entityMap) + 1) \div 2))
    ELSE entityMap

\* cleanup(): past maxSize, the keys at positions i < keys.length / 2 go
cleanup(entityMap) ==
    IF Len(entityMap) > maxSize
    THEN SubSeq(entityMap, ((Len(entityMap) + 1) \div 2) + 1, Len(entityMap))
    ELSE entityMap

upsertById(entityMap, id, entity) == cleanup(mapSet(entityMap, id, entity))

deleteById(entityMap, id) == SelectSeq(entityMap, LAMBDA e : e.key # id)

count(entityMap) == Len(entityMap)

(***************************************************************************)
(* Labels, label associations, groups, presences, connection state         *)
(***************************************************************************)

\* The number of labels labels.edit stops at (line 186).
labelCap == 20

RECURSIVE labelsUpsert(_, _)
labelsUpsert(entityMap, newLabels) ==
    IF newLabels = <<>> THEN entityMap
    ELSE labelsUpsert(upsertById(entityMap, Head(newLabels).id, Head(newLabels)),
                      Tail(newLabels))

\* onLabelsEdit storing a label while the count is at most the cap.
onLabelsEditOffByOne(s, label) ==
    IF IsTrue(label, "deleted")
    THEN [s EXCEPT !.labels = deleteById(s.labels, label.id)]
    ELSE IF count(s.labels) <= labelCap
    THEN [s EXCEPT !.labels = upsertById(s.labels, label.id, label)]
    ELSE s

\* ev.on('labels.edit')
onLabelsEdit(s, label) ==
    IF IsTrue(label, "deleted")
    THEN [s EXCEPT !.labels = deleteById(s.labels, label.id)]
    ELSE IF count(s.labels) < labelCap
    THEN [s EXCEPT !.labels = upsertById(s.labels, label.id, label)]
    ELSE s

\* ev.on('labels.upsert')
onLabelsUpsert(s, newLabels) ==
    [s EXCEPT !.labels = labelsUpsert(s.labels, newLabels)]

RECURSIVE labelsUpdateAll(_, _)
labelsUpdateAll(entityMap, updates) ==
    IF updates = <<>> THEN entityMap
    ELSE LET update == Head(updates)
         IN  labelsUpdateAll(
                IF repoHas(entityMap, update.id)
                THEN [entityMap EXCEPT ![repoIndex(entityMap, update.id)].value =
                            Assign(findById(entityMap, update.id), update)]
                ELSE entityMap,
                Tail(updates))

\* ev.on('labels.update')
onLabelsUpdate(s, updates) ==
    [s EXCEPT !.labels = labelsUpdateAll(s.labels, updates)]

\* waLabelAssociationKey.key(la)
waLabelAssociationKey(la) ==
    IF la.type = "label_jid" THEN la.chatId \o la.labelId
    ELSE la.chatId \o la.messageId \o la.labelId

\* labelAssociations.delete(item): the KeyedDB, keyed and identified by the
\* association key
assocDelete(array, la) ==
    SelectSeq(array,
              LAMBDA x : waLabelAssociationKey(x) # waLabelAssociationKey(la))

\* labelAssociations.upsert(item)
assocUpsert(array, la) ==
    LET rest == assocDelete(array, la)
        n == Cardinality({i \in 1..Len(rest) :
                StrLess(waLabelAssociationKey(la),
                        waLabelAssociationKey(rest[i]))})
    IN  SubSeq(rest, 1, n) \o <<la>> \o SubSeq(rest, n + 1, Len(rest))

RECURSIVE assocFromJSON(_, _)
assocFromJSON(array, items) ==
    IF items = <<>> THEN array
    ELSE assocFromJSON(assocUpsert(array, Head(items)), Tail(items))

\* ev.on('labels.association')
onLabelsAssociation(s, type, association) ==
    IF type = "add"
    THEN [s EXCEPT !.labelAssociations =
                        assocUpsert(s.labelAssociations, association)]
    ELSE IF type = "remove"
    THEN [s EXCEPT !.labelAssociations =
                        assocDelete(s.labelAssociations, association)]
    ELSE s

\* ev.on('connection.update')
onConnectionUpdate(s, update) == [s EXCEPT !.state = Assign(s.state, update)]

\* ev.on('presence.update')
onPresenceUpdate(s, id, update) ==
    [s EXCEPT !.presences =
        Put(s.presences, id,
            Assign(IF id \in DOMAIN s.presences THEN s.presences[id]
                   ELSE EmptyObj,
                   update))]

RECURSIVE groupsUpdateAll(_, _)
groupsUpdateAll(groups, updates) ==
    IF updates = <<>> THEN groups
    ELSE groupsUpdateAll(
            Put(groups, Head(updates).id,
                Assign(IF Head(updates).id \in DOMAIN groups
                       THEN groups[Head(updates).id] ELSE EmptyObj,
                       Head(updates))),
            Tail(updates))

\* ev.on('groups.update')
onGroupsUpdate(s, updates) ==
    [s EXCEPT !.groupMetadata = groupsUpdateAll(s.groupMetadata, updates)]

(***************************************************************************)
(* contacts.update, and the reads that fetch on a miss. The socket's       *)
(* profilePictureUrl and groupMetadata answer later, with a value or with  *)
(* undefined: an outcome is a set, empty for undefined.                    *)
(***************************************************************************)

\* getValidContacts(): the keys without an "@" are deleted
getValidContacts(cs) ==
    [k \in {x \in DOMAIN cs : IndexOf(x, "@") > 0} |-> cs[k]]

\* md5(user + 'WA_ADD_NOTIF').toString('base64').slice(0, 3), for the users
\* of the model.
contactHash(user) ==
    IF user = "1" THEN "OW+" ELSE IF user = "2" THEN "gpv"
    ELSE IF user = "3" THEN "2I7" ELSE ""

\* The key of the contact an update is for: contacts[update.id], else the
\* valid contact whose hash is update.id; empty when there is none.
contactFor(cs, update) ==
    IF update.id \in DOMAIN cs THEN {update.id}
    ELSE LET matches == {k \in DOMAIN getValidContacts(cs) :
                            contactHash(jidUser(k)) = update.id}
         IN  IF matches = {} THEN {} ELSE {CHOOSE k \in matches : TRUE}

\* contact.imgUrl = outcome
setImgUrl(contact, outcome) ==
    IF outcome = {} THEN Without(contact, {"imgUrl"})
    ELSE Put(contact, "imgUrl", CHOOSE u \in outcome : TRUE)

\* Object.assign(contacts[contact.id], contact), line 159: the contacts it
\* leaves, as a set; empty when contacts[contact.id] is undefined and the
\* call throws a TypeError.
assignContact(cs, contact) ==
    IF Has(contact, "id") /\ contact.id \in DOMAIN cs
    THEN {Put(cs, contact.id,
              [k \in (DOMAIN cs[contact.id]) \cup (DOMAIN contact) |->
                    IF k \in DOMAIN contact THEN contact[k]
                    ELSE cs[contact.id][k]])}
    ELSE {}

\* The loop of contacts.update from the given updates on, up to its end, its
\* next await or a throw: the contacts it leaves, the call suspended at
\* line 155 (the key of its contact and the updates still to come), and
\* whether it threw.
RECURSIVE contactsUpdateFrom(_, _)
contactsUpdateFrom(cs, updates) ==
    IF updates = <<>>
    THEN [contacts |-> cs, awaits |-> {}, raised |-> FALSE]
    ELSE LET update == Head(updates)
             found == contactFor(cs, update)
             cs1 == IF update.id \in DOMAIN cs THEN cs
                    ELSE getValidContacts(cs)
         IN  IF found = {} THEN contactsUpdateFrom(cs1, Tail(updates))
             ELSE LET key == CHOOSE k \in found : TRUE
                  IN  IF Has(update, "imgUrl") /\ update.imgUrl = "changed"
                      THEN [contacts |-> cs1,
                            awaits |-> {[contact |-> key,
                                         rest |-> Tail(updates)]},
                            raised |-> FALSE]
                      ELSE LET cs2 ==
                                 IF Has(update, "imgUrl")
                                    /\ update.imgUrl = "removed"
                                 THEN Put(cs1, key,
                                          Without(cs1[key], {"imgUrl"}))
                                 ELSE cs1
                               cs3 == assignContact(cs2, cs2[key])
                           IN  IF cs3 = {}
                               THEN [contacts |-> cs2, awaits |-> {},
                                     raised |-> TRUE]
                               ELSE contactsUpdateFrom(
                                        CHOOSE c \in cs3 : TRUE,
                                        Tail(updates))

\* contacts.update resumed at line 155 with the outcome of
\* profilePictureUrl: contact is the object the call holds, stored under
\* key while held is true.
contactsUpdateResume(cs, key, contact, held, outcome, rest) ==
    LET contact2 == setImgUrl(contact, outcome)
        cs1 == IF held THEN Put(cs, key, contact2) ELSE cs
        cs2 == assignContact(cs1, contact2)
    IN  IF cs2 = {}
        THEN [contacts |-> cs1, awaits |-> {}, raised |-> TRUE]
        ELSE contactsUpdateFrom(
                IF outcome = {} /\ Has(contact2, "id")
                THEN Put(CHOOSE c \in cs2 : TRUE, contact2.id,
                         Without((CHOOSE c \in cs2 : TRUE)[contact2.id],
                                 {"imgUrl"}))
                ELSE CHOOSE c \in cs2 : TRUE,
                rest)

\* ev.on('group-participants.update'): the metadata it leaves, as a set;
\* empty when metadata.participants is undefined and the call throws a
\* TypeError.
onGroupParticipantsUpdate(groups, id, participants, action) ==
    IF id \notin DOMAIN groups \/ action \notin {"add", "remove"}
    THEN {groups}
    ELSE IF ~Has(groups[id], "participants") THEN {}
    ELSE IF action = "add"
    THEN {Put(groups, id,
              Put(groups[id], "participants",
                  groups[id].participants
                    \o [i \in 1..Len(participants) |->
                            [id |-> participants[i]]]))}
    ELSE {Put(groups, id,
              Put(groups[id], "participants",
                  SelectSeq(groups[id].participants,
                            LAMBDA q : \A i \in 1..Len(participants) :
                                            participants[i] # q.id)))}

(***************************************************************************)
(* Snapshots and reads                                                     *)
(***************************************************************************)

\* toJSON()
toJSON(s) ==
    [chats |-> s.chats,
     contacts |-> s.contacts,
     messages |-> [k \in DOMAIN s.messages |-> odToJSON(s.messages[k])],
     groupMetadata |-> s.groupMetadata,
     presences |-> s.presences,
     state |-> s.state,
     labels |-> findAll(s.labels),
     labelAssociations |-> s.labelAssociations]

\* fromJSON(json) that resets the collection of a key the json lacks.
fromJSONResetting(s, json) ==
    [chats |-> IF Has(json, "chats") THEN kdbFromJSON(json.chats)
               ELSE <<>>,
     contacts |-> IF Has(json, "contacts")
                  THEN Assign(s.contacts, json.contacts) ELSE EmptyObj,
     messages |-> IF Has(json, "messages")
                  THEN [jid \in (DOMAIN s.messages) \cup (DOMAIN json.messages)
                          |-> IF jid \in DOMAIN json.messages
                              THEN odFromJSON(
                                     assertMessageList(s.messages, jid)[jid],
                                     json.messages[jid])
                              ELSE s.messages[jid]]
                  ELSE EmptyObj,
     groupMetadata |-> IF Has(json, "groupMetadata")
                       THEN Assign(s.groupMetadata, json.groupMetadata)
                       ELSE EmptyObj,
     presences |-> IF Has(json, "presences")
                   THEN Assign(s.presences, json.presences) ELSE EmptyObj,
     state |-> IF Has(json, "state") THEN Assign(s.state, json.state)
               ELSE [connection |-> "close"],
     labels |-> IF Has(json, "labels") THEN labelsUpsert(s.labels, json.labels)
                ELSE <<>>,
     labelAssociations |-> IF Has(json, "labelAssociations")
                           THEN assocFromJSON(<<>>, json.labelAssociations)
                           ELSE <<>>]

\* fromJSON(json), for a json that is an object; a key it lacks is undefined
fromJSON(s, json) ==
    [chats |-> IF Has(json, "chats") THEN kdbFromJSON(json.chats)
               ELSE s.chats,
     contacts |-> IF Has(json, "contacts")
                  THEN Assign(s.contacts, json.contacts) ELSE s.contacts,
     messages |-> IF Has(json, "messages")
                  THEN [jid \in (DOMAIN s.messages) \cup (DOMAIN json.messages)
                          |-> IF jid \in DOMAIN json.messages
                              THEN odFromJSON(
                                     assertMessageList(s.messages, jid)[jid],
                                     json.messages[jid])
                              ELSE s.messages[jid]]
                  ELSE s.messages,
     groupMetadata |-> IF Has(json, "groupMetadata")
                       THEN Assign(s.groupMetadata, json.groupMetadata)
                       ELSE s.groupMetadata,
     presences |-> IF Has(json, "presences")
                   THEN Assign(s.presences, json.presences) ELSE s.presences,
     state |-> IF Has(json, "state") THEN Assign(s.state, json.state)
               ELSE s.state,
     labels |-> IF Has(json, "labels") THEN labelsUpsert(s.labels, json.labels)
                ELSE s.labels,
     labelAssociations |-> IF Has(json, "labelAssociations")
                           THEN assocFromJSON(<<>>, json.labelAssociations)
                           ELSE s.labelAssociations]

\* fromJSON(json) from its first line on: the snapshot is a set, empty for
\* a json that is undefined or null (line 294).
fromJSONIfAny(s, snapshot) ==
    IF snapshot = {} THEN s ELSE fromJSON(s, CHOOSE json \in snapshot : TRUE)

\* loadMessage(jid, id): the set holding the message found, empty for
\* undefined
loadMessage(s, jid, id) ==
    LET k == jidNormalizedUser(jid)
    IN  IF k \in DOMAIN s.messages /\ odHas(s.messages[k], id)
        THEN {odGet(s.messages[k], id)}
        ELSE {}

\* The store makeInMemoryStore returns (lines 51-74).
makeInMemoryStore ==
    [chats |-> <<>>, messages |-> EmptyObj, contacts |-> EmptyObj,
     groupMetadata |-> EmptyObj, presences |-> EmptyObj,
     state |-> [connection |-> "close"], labels |-> <<>>,
     labelAssociations |-> <<>>]

(***************************************************************************)
(* The state after construction (makeInMemoryStore, and a fresh ordered    *)
(* dictionary od exercised on its own).                                    *)
(***************************************************************************)

Init ==
    /\ chats = <<>>
    /\ messages = EmptyObj
    /\ contacts = EmptyObj
    /\ groupMetadata = EmptyObj
    /\ presences = EmptyObj
    /\ state = [connection |-> "close"]
    /\ labels = <<>>
    /\ labelAssociations = <<>>
    /\ od = makeMessagesDictionary
    /\ last = [ev |-> "init"]
    /\ tasks = <<>>
    /\ completed = {}

StoreUnchanged ==
    UNCHANGED <<chats, messages, contacts, groupMetadata, presences, state,
                labels, labelAssociations, tasks, completed>>

\* {EmptyObj} and the objects whose one field name has a value of vals.
OptField(name, vals) == {EmptyObj} \cup {name :> v : v \in vals}

(***************************************************************************)
(* The ordered dictionary on its own: every operation of its interface.    *)
(***************************************************************************)

\* The longest array the model lets a dictionary grow to.
MaxLen == 3

DictIds == {"m1", "m2"}

DictStatuses == {1, 2}

DictItems ==
    {("key" :> [id |-> i]) @@ s :
        i \in DictIds, s \in OptField("status", DictStatuses)}

DictPatches ==
    {k @@ s : k \in OptField("key", {[id |-> i] : i \in DictIds}),
              s \in OptField("status", DictStatuses)}

\* The snapshots fromJSON is given: lists without a repeated identity.
DictSnapshots ==
    {<<>>} \cup {<<a>> : a \in DictItems}
        \cup {p \in {<<a, b>> : a, b \in DictItems} :
                    waMessageID(p[1]) # waMessageID(p[2])}

DictUpsert(item, mode) ==
    /\ Len(od.array) < MaxLen
    /\ od' = odUpsert(od, item, mode)
    /\ last' = [ev |-> "od.upsert", item |-> item, mode |-> mode]
    /\ StoreUnchanged

DictUpdate(item) ==
    /\ od' = odUpdate(od, item)
    /\ last' = [ev |-> "od.update", item |-> item,
                result |-> odUpdateResult(od, item)]
    /\ StoreUnchanged

DictUpdateAssign(id, update) ==
    /\ od' = odUpdateAssign(od, id, update)
    /\ last' = [ev |-> "od.updateAssign", id |-> id, update |-> update,
                result |-> odUpdateAssignResult(od, id)]
    /\ StoreUnchanged

DictRemove(item) ==
    /\ od' = odRemove(od, item)
    /\ last' = [ev |-> "od.remove", item |-> item,
                result |-> odRemoveResult(od, item)]
    /\ StoreUnchanged

DictFilter(status) ==
    /\ od' = odFilter(od, status)
    /\ last' = [ev |-> "od.filter", status |-> status]
    /\ StoreUnchanged

DictClear ==
    /\ od' = odClear(od)
    /\ last' = [ev |-> "od.clear"]
    /\ StoreUnchanged

DictFromJSON(newItems) ==
    /\ od' = odFromJSON(od, newItems)
    /\ last' = [ev |-> "od.fromJSON", newItems |-> newItems]
    /\ StoreUnchanged

NextDict ==
    \/ \E item \in DictItems, mode \in {"append", "prepend"} :
            DictUpsert(item, mode)
    \/ \E item \in DictItems : DictUpdate(item)
    \/ \E id \in DictIds, update \in DictPatches : DictUpdateAssign(id, update)
    \/ \E item \in DictItems : DictRemove(item)
    \/ \E status \in DictStatuses : DictFilter(status)
    \/ DictClear
    \/ \E newItems \in DictSnapshots : DictFromJSON(newItems)

SpecDict == Init /\ [][NextDict]_vars

\* Every lookup entry maps its key to a position of the array that holds an
\* item of that identity (a sanity property of the model of dict).
DictEntriesPointIntoArray ==
    \A k \in DOMAIN od.dict :
        /\ od.dict[k] \in 1..Len(od.array)
        /\ waMessageID(od.array[od.dict[k]]) = k

\* C9: upsert(item, 'append') of an identity not in the sequence puts the item
\* last, upsert(item, 'prepend') of one not in the sequence puts it first, and
\* upsert of an identity already in the sequence replaces the item at its
\* existing index and moves nothing, whichever mode is given.
UpsertPosition ==
    [][last'.ev = "od.upsert" =>
        LET item == last'.item
            idx == findIndex(od.array, waMessageID(item))
        IN  IF idx = 0
            THEN od'.array = IF last'.mode = "append"
                             THEN Append(od.array, item)
                             ELSE <<item>> \o od.array
            ELSE od'.array = [od.array EXCEPT ![idx] = item]]_vars

\* C10: every item of the sequence has a lookup entry under its identity that
\* maps to that same item, every lookup entry maps to an item of the sequence
\* of that identity, and no identity occurs twice in the sequence.
DictConsistent ==
    /\ \A i \in 1..Len(od.array) :
            /\ waMessageID(od.array[i]) \in DOMAIN od.dict
            /\ od.dict[waMessageID(od.array[i])] = i
    /\ DictEntriesPointIntoArray
    /\ \A i, j \in 1..Len(od.array) :
            waMessageID(od.array[i]) = waMessageID(od.array[j]) => i = j

\* C11: update(item) of an item whose identity the sequence holds replaces
\* it in place and returns true; of an item whose identity it does not hold,
\* inserts nothing, leaves both views as they were and returns false.
UpdateReportsFound ==
    [][last'.ev = "od.update" =>
        LET item == last'.item
            idx == findIndex(od.array, waMessageID(item))
        IN  IF idx > 0
            THEN /\ od'.array = [od.array EXCEPT ![idx] = item]
                 /\ last'.result = TRUE
            ELSE /\ od' = od
                 /\ last'.result = FALSE]_vars

(***************************************************************************)
(* The store as one value, and the step that installs a handler's result.  *)
(***************************************************************************)

Store ==
    [chats |-> chats, messages |-> messages, contacts |-> contacts,
     groupMetadata |-> groupMetadata, presences |-> presences,
     state |-> state, labels |-> labels,
     labelAssociations |-> labelAssociations]

\* The store's collections become those of s.
Installs(s) ==
    /\ chats' = s.chats
    /\ messages' = s.messages
    /\ contacts' = s.contacts
    /\ groupMetadata' = s.groupMetadata
    /\ presences' = s.presences
    /\ state' = s.state
    /\ labels' = s.labels
    /\ labelAssociations' = s.labelAssociations

\* The asynchronous calls ts once the contacts are cs: a call that holds the
\* object of a contact whose key is gone from cs keeps that object, which
\* is no longer the store's.
Orphaned(ts, cs) ==
    [i \in 1..Len(ts) |->
        IF /\ Has(ts[i], "contact")
           /\ ts[i].orphan = {}
           /\ ts[i].contact \notin DOMAIN cs
        THEN [ts[i] EXCEPT !.orphan = {contacts[ts[i].contact]}]
        ELSE ts[i]]

\* A synchronous handler has run and left the store s.
Becomes(s) ==
    /\ Installs(s)
    /\ od' = od
    /\ tasks' = Orphaned(tasks, s.contacts)
    /\ completed' = completed

\* The batches an event carries: one element, or two.
Batches(one, two) == {<<x>> : x \in one} \cup {<<x, y>> : x, y \in two}

(***************************************************************************)
(* Chat events                                                             *)
(***************************************************************************)

\* The largest unread count the model lets a chat accumulate.
MaxUnread == 6

ChatIds == {"1@s.whatsapp.net", "2@s.whatsapp.net"}

UnreadOf(c) == IF Has(c, "unreadCount") THEN c.unreadCount ELSE 0

ChatsUpsert(newChats) ==
    /\ \E s2 \in {onChatsUpsert(Store, newChats)} : Becomes(s2)
    /\ last' = [ev |-> "chats.upsert", newChats |-> newChats]

ChatsUpdate(updates) ==
    /\ \E s2 \in {onChatsUpdate(Store, updates)} :
            /\ \A i \in 1..Len(s2.chats) : UnreadOf(s2.chats[i]) <= MaxUnread
            /\ Becomes(s2)
    /\ last' = [ev |-> "chats.update", updates |-> updates]

ChatsDelete(deletions) ==
    /\ \E s2 \in {onChatsDelete(Store, deletions)} : Becomes(s2)
    /\ last' = [ev |-> "chats.delete", deletions |-> deletions]

\* Chats and patches that differ in the fields the order is made of.
OrderChats ==
    {("id" :> i) @@ p @@ a @@ t :
        i \in ChatIds, p \in OptField("pinned", {TRUE}),
        a \in OptField("archived", {TRUE}),
        t \in OptField("conversationTimestamp", {0, 5})}

OrderChatsByTime ==
    {c \in OrderChats : ~Has(c, "pinned") /\ ~Has(c, "archived")}

NextChats ==
    \/ \E newChats \in Batches(OrderChats, OrderChatsByTime) :
            ChatsUpsert(newChats)
    \/ \E updates \in Batches(OrderChats, OrderChatsByTime) :
            ChatsUpdate(updates)
    \/ \E deletions \in Batches(ChatIds, ChatIds) : ChatsDelete(deletions)

SpecChats == Init /\ [][NextChats]_vars

\* chats.all() follows the comparator over the keys of its chats (what the
\* model of the collection maintains).
ChatsInKeyOrder ==
    \A i \in 1..(Len(chats) - 1) :
        waChatKeyCompare(waChatKey(chats[i]), waChatKey(chats[i + 1])) < 0

TimeOf(c) ==
    IF Has(c, "conversationTimestamp") THEN c.conversationTimestamp ELSE 0

\* a comes before b in descending order of (pinned, not archived,
\* conversationTimestamp), ties broken by descending identifier.
ChatPrecedes(a, b) ==
    IF IsTrue(a, "pinned") # IsTrue(b, "pinned") THEN IsTrue(a, "pinned")
    ELSE IF IsTrue(a, "archived") # IsTrue(b, "archived")
    THEN IsTrue(b, "archived")
    ELSE IF TimeOf(a) # TimeOf(b) THEN TimeOf(a) > TimeOf(b)
    ELSE StrLess(b.id, a.id)

\* C1: chats.all() lists the chats in descending order of (pinned, not
\* archived, conversationTimestamp), ties broken by descending identifier,
\* chats with an unset or zero conversationTimestamp included.
ChatsOrdered ==
    \A i \in 1..(Len(chats) - 1) : ChatPrecedes(chats[i], chats[i + 1])

\* Chats and patches that differ in the unread count and one other field.
UnreadChats ==
    {("id" :> i) @@ u @@ p :
        i \in ChatIds, u \in OptField("unreadCount", {2}),
        p \in OptField("pinned", {TRUE})}

UnreadPatches ==
    {("id" :> i) @@ u @@ p :
        i \in ChatIds, u \in OptField("unreadCount", {-1, 0, 3}),
        p \in OptField("pinned", {TRUE, FALSE})}

UnreadOnlyPatches == {u \in UnreadPatches : ~Has(u, "pinned")}

NextUnread ==
    \/ \E newChats \in Batches(UnreadChats, {}) : ChatsUpsert(newChats)
    \/ \E updates \in Batches(UnreadPatches, UnreadOnlyPatches) :
            ChatsUpdate(updates)
    \/ \E deletions \in Batches(ChatIds, {}) : ChatsDelete(deletions)

SpecUnread == Init /\ [][NextUnread]_vars

\* The one patch of the batch for identifier id.
OnlyPatchFor(updates, i) ==
    \A j \in 1..Len(updates) : updates[j].id = updates[i].id => j = i

\* C3: for a known chat with stored unreadCount u (0 when unset), a
\* chats.update patch with unreadCount n > 0 leaves the stored unreadCount at
\* u + n, a patch with unreadCount <= 0 replaces it, and the other fields of
\* the patch are merged onto the chat, whose remaining fields are kept.
UnreadAccumulates ==
    [][last'.ev = "chats.update" =>
        \A i \in 1..Len(last'.updates) :
            LET u == last'.updates[i]
            IN  (/\ kdbHas(chats, u.id)
                 /\ OnlyPatchFor(last'.updates, i)
                 /\ Has(u, "unreadCount")) =>
                    /\ kdbHas(chats', u.id)
                    /\ LET c == kdbGet(chats, u.id)
                           c2 == kdbGet(chats', u.id)
                       IN  /\ DOMAIN c2 = (DOMAIN c) \cup (DOMAIN u)
                           /\ c2.unreadCount =
                                IF u.unreadCount > 0
                                THEN UnreadOf(c) + u.unreadCount
                                ELSE u.unreadCount
                           /\ \A k \in (DOMAIN u) \ {"unreadCount"} :
                                c2[k] = u[k]
                           /\ \A k \in (DOMAIN c) \ (DOMAIN u) : c2[k] = c[k]
    ]_vars

\* A chat that held unreadCount 2 holds 5 after a patch carrying 3 and
\* pinned, and is pinned.
UnreadAccumulatesWitness ==
    /\ last.ev = "chats.update"
    /\ \E i \in 1..Len(last.updates) :
        /\ Has(last.updates[i], "unreadCount")
        /\ last.updates[i].unreadCount = 3
        /\ IsTrue(last.updates[i], "pinned")
        /\ kdbHas(chats, last.updates[i].id)
        /\ UnreadOf(kdbGet(chats, last.updates[i].id)) = 5
        /\ IsTrue(kdbGet(chats, last.updates[i].id), "pinned")

(***************************************************************************)
(* Message events                                                          *)
(***************************************************************************)

\* No message list is longer than MaxLen.
ListsWithinBound(s) ==
    \A j \in DOMAIN s.messages : Len(s.messages[j].array) <= MaxLen

MessagesUpsert(newMessages, type) ==
    /\ \E s2 \in {onMessagesUpsert(Store, newMessages, type)} :
            ListsWithinBound(s2) /\ Becomes(s2)
    /\ last' = [ev |-> "messages.upsert", messages |-> newMessages,
                type |-> type]

MessagesUpdate(updates) ==
    /\ \E s2 \in {onMessagesUpdate(Store, updates)} : Becomes(s2)
    /\ last' = [ev |-> "messages.update", updates |-> updates]

StatusJid == "1@s.whatsapp.net"

StatusMessages ==
    {[key |-> [remoteJid |-> StatusJid, id |-> i]] @@ st :
        i \in DictIds, st \in OptField("status", 0..5)}

StatusUpdates ==
    {[key |-> [remoteJid |-> StatusJid, id |-> i], update |-> u] :
        i \in DictIds, u \in OptField("status", 0..5)}

NextStatus ==
    \/ \E newMessages \in Batches(StatusMessages, {}),
          type \in {"append", "notify"} : MessagesUpsert(newMessages, type)
    \/ \E updates \in
            Batches(StatusUpdates,
                    {u \in StatusUpdates : u.update \in OptField("status", {2, 3})}) :
            MessagesUpdate(updates)

SpecStatus == Init /\ [][NextStatus]_vars

\* The one patch of the batch for the message of updates[i].
OnlyUpdateFor(updates, i) ==
    \A j \in 1..Len(updates) : updates[j].key = updates[i].key => j = i

\* C2: for a stored message with status s and a messages.update patch
\* carrying status t, both in 0..5: if t <= s the stored status stays s, and
\* if t > s it becomes t.
StatusMonotonic ==
    [][last'.ev = "messages.update" =>
        \A i \in 1..Len(last'.updates) :
            LET u == last'.updates[i]
                jid == jidNormalizedUser(u.key.remoteJid)
            IN  (/\ OnlyUpdateFor(last'.updates, i)
                 /\ jid \in DOMAIN messages
                 /\ odHas(messages[jid], u.key.id)
                 /\ Has(odGet(messages[jid], u.key.id), "status")
                 /\ Has(u.update, "status")) =>
                    /\ odHas(messages'[jid], u.key.id)
                    /\ Has(odGet(messages'[jid], u.key.id), "status")
                    /\ odGet(messages'[jid], u.key.id).status =
                        IF u.update.status <= odGet(messages[jid], u.key.id).status
                        THEN odGet(messages[jid], u.key.id).status
                        ELSE u.update.status
    ]_vars

(***************************************************************************)
(* History sync and contact events                                         *)
(***************************************************************************)

\* What the store held when the event arrived.
Before ==
    [chats |-> IdsOf(chats), lists |-> DOMAIN messages,
     contacts |-> DOMAIN contacts]

HistorySet(p) ==
    /\ \E s2 \in {onHistorySet(Store, p)} :
            ListsWithinBound(s2) /\ Becomes(s2)
    /\ last' = [ev |-> "messaging-history.set", p |-> p, before |-> Before]

ContactsUpsert(newContacts) ==
    /\ \E s2 \in {onContactsUpsert(Store, newContacts)} : Becomes(s2)
    /\ last' = [ev |-> "contacts.upsert", contacts |-> newContacts]

OtherJid == "2@s.whatsapp.net"

SyncChats ==
    {("id" :> i) @@ p : i \in ChatIds, p \in OptField("pinned", {TRUE})}

SyncChatLists ==
    {<<>>, <<[id |-> StatusJid]>>,
     <<[id |-> OtherJid], [id |-> StatusJid, pinned |-> TRUE]>>,
     <<[id |-> OtherJid], [id |-> OtherJid, pinned |-> TRUE]>>}

SyncMessages ==
    {[key |-> [remoteJid |-> StatusJid, id |-> i]] @@ st :
        i \in DictIds, st \in OptField("status", {3})}
    \cup {[key |-> [remoteJid |-> OtherJid, id |-> "m1"]]}

SyncMessageLists ==
    {<<>>,
     <<[key |-> [remoteJid |-> StatusJid, id |-> "m1"]]>>,
     <<[key |-> [remoteJid |-> StatusJid, id |-> "m2"]],
       [key |-> [remoteJid |-> OtherJid, id |-> "m1"]]>>,
     <<[key |-> [remoteJid |-> StatusJid, id |-> "m2"]],
       [key |-> [remoteJid |-> StatusJid, id |-> "m2"], status |-> 3]>>}

SyncTypes == {"RECENT", "ON_DEMAND"}

\* The payloads of messaging-history.set: chats and messages, no contacts.
SyncEvents ==
    {[chats |-> cs, contacts |-> <<>>, messages |-> ms,
      isLatest |-> isLatest, syncType |-> syncType] :
        cs \in SyncChatLists, ms \in SyncMessageLists,
        isLatest \in BOOLEAN, syncType \in SyncTypes}

NextSync ==
    \/ \E newChats \in Batches(SyncChats, {}) : ChatsUpsert(newChats)
    \/ \E newMessages \in Batches(SyncMessages, {}) :
            MessagesUpsert(newMessages, "append")
    \/ \E p \in SyncEvents : HistorySet(p)

SpecSync == Init /\ [][NextSync]_vars

Range(seq) == {seq[i] : i \in 1..Len(seq)}

\* The messages of a sync addressed to jid.
SyncedTo(newMessages, jid) ==
    {m \in Range(newMessages) : m.key.remoteJid = jid}

\* C4: a full-history-sync with isLatest = true and a sync type other than
\* on-demand, carrying chats C and messages M, leaves the chat collection
\* holding exactly the chats of C and the message lists holding exactly the
\* messages of M: no chat and no message from before the sync survives.
LatestSyncReplaces ==
    [][(/\ last'.ev = "messaging-history.set"
        /\ last'.p.isLatest
        /\ last'.p.syncType # "ON_DEMAND") =>
        /\ IdsOf(chats') = IdsOf(last'.p.chats)
        /\ Range(chats') \subseteq Range(last'.p.chats)
        /\ DOMAIN messages' =
                {m.key.remoteJid : m \in Range(last'.p.messages)}
        /\ \A jid \in DOMAIN messages' :
            /\ Range(messages'[jid].array) \subseteq
                    SyncedTo(last'.p.messages, jid)
            /\ {waMessageID(m) : m \in Range(messages'[jid].array)} =
                    {waMessageID(m) : m \in SyncedTo(last'.p.messages, jid)}
            /\ DOMAIN messages'[jid].dict =
                    {waMessageID(m) : m \in Range(messages'[jid].array)}
    ]_vars

\* A latest sync carrying one chat and one message arrived at a store that
\* held another chat and another message list, and left only its own.
LatestSyncReplacesWitness ==
    /\ last.ev = "messaging-history.set"
    /\ last.p.isLatest
    /\ last.p.syncType # "ON_DEMAND"
    /\ Len(last.p.chats) = 1
    /\ Len(last.p.messages) = 1
    /\ last.before.chats \ IdsOf(last.p.chats) # {}
    /\ last.before.lists \ {last.p.messages[1].key.remoteJid} # {}
    /\ chats = last.p.chats
    /\ DOMAIN messages = {last.p.messages[1].key.remoteJid}

SyncContacts ==
    {("id" :> i) @@ n @@ y :
        i \in ChatIds, n \in OptField("name", {"a", "b"}),
        y \in OptField("notify", {"y"})}

SyncContactsByName == {c \in SyncContacts : ~Has(c, "notify")}

SyncContactLists == {<<>>} \cup Batches(SyncContacts, SyncContactsByName)

\* The payloads of messaging-history.set: contacts alone.
ContactSyncEvents ==
    {[chats |-> <<>>, contacts |-> cs, messages |-> <<>>,
      isLatest |-> isLatest, syncType |-> syncType] :
        cs \in SyncContactLists, isLatest \in BOOLEAN,
        syncType \in SyncTypes}

NextContacts ==
    \/ \E newContacts \in Batches(SyncContacts, {}) :
            ContactsUpsert(newContacts)
    \/ \E p \in ContactSyncEvents : HistorySet(p)

SpecContacts == Init /\ [][NextContacts]_vars

\* What a sync of the given kind must have done to the contacts.
ContactsSynced(old, new, p) ==
    IF p.isLatest
    THEN DOMAIN new = IdsOf(p.contacts)
    ELSE /\ (DOMAIN old) \subseteq (DOMAIN new)
         /\ \A i \in 1..Len(p.contacts) :
                (\A j \in 1..Len(p.contacts) :
                    p.contacts[j].id = p.contacts[i].id => j = i) =>
                    /\ p.contacts[i].id \in DOMAIN new
                    /\ new[p.contacts[i].id] =
                        Assign(IF p.contacts[i].id \in DOMAIN old
                               THEN old[p.contacts[i].id] ELSE EmptyObj,
                               p.contacts[i])

\* C5 as stated: after a full-history-sync with isLatest = true the contact
\* identifiers are exactly those of the sync's contact list; with isLatest =
\* false no stored contact is removed and the incoming contacts are
\* shallow-merged onto the existing records.
ContactsFollowEverySync ==
    [][last'.ev = "messaging-history.set" =>
        ContactsSynced(contacts, contacts', last'.p)]_vars

\* C5 as amended: the same, for a sync of a type other than on-demand (an
\* on-demand sync is ignored whole, contacts included).
ContactsFollowSync ==
    [][(last'.ev = "messaging-history.set" /\ last'.p.syncType # "ON_DEMAND")
        => ContactsSynced(contacts, contacts', last'.p)]_vars

\* A latest sync naming one contact arrived at a store that held another
\* contact, and left only the one it names.
ContactsFollowSyncWitness ==
    /\ last.ev = "messaging-history.set"
    /\ last.p.isLatest
    /\ last.p.syncType # "ON_DEMAND"
    /\ Len(last.p.contacts) = 1
    /\ last.before.contacts \ IdsOf(last.p.contacts) # {}
    /\ DOMAIN contacts = IdsOf(last.p.contacts)

(***************************************************************************)
(* Label events                                                            *)
(***************************************************************************)

\* The most labels the model lets the repository hold.
MaxLabels == 21

LabelId(n) == ToString(n)

\* The label the model edits, patches, deletes and brings back.
EditedLabelId == LabelId(1)

\* The first k identifiers, in counting order, the repository does not hold.
FreshLabelIds(entityMap, k) ==
    LET free == {n \in 1..(Len(entityMap) + k) :
                    ~repoHas(entityMap, LabelId(n))}
    IN  {LabelId(n) : n \in {m \in free :
                                Cardinality({x \in free : x < m}) < k}}

LabelNames == {"a", "b"}

\* The labels an event can carry: the edited label under either name, and
\* a label the repository has not seen.
IncomingLabels ==
    {[id |-> EditedLabelId, name |-> n] : n \in LabelNames}
        \cup {[id |-> i, name |-> "a"] : i \in FreshLabelIds(labels, 1)}

IncomingLabelLists ==
    {<<l>> : l \in IncomingLabels}
        \cup {<<[id |-> i, name |-> "a"], [id |-> j, name |-> "a"]>> :
                i \in FreshLabelIds(labels, 1),
                j \in FreshLabelIds(labels, 2) \ FreshLabelIds(labels, 1)}

LabelsWithinBound(s) == count(s.labels) <= MaxLabels

LabelsEdit(label) ==
    /\ \E s2 \in {onLabelsEdit(Store, label)} :
            LabelsWithinBound(s2) /\ Becomes(s2)
    /\ last' = [ev |-> "labels.edit", label |-> label]

LabelsUpsert(newLabels) ==
    /\ \E s2 \in {onLabelsUpsert(Store, newLabels)} :
            LabelsWithinBound(s2) /\ Becomes(s2)
    /\ last' = [ev |-> "labels.upsert", labels |-> newLabels]

LabelsUpdate(updates) ==
    /\ \E s2 \in {onLabelsUpdate(Store, updates)} :
            LabelsWithinBound(s2) /\ Becomes(s2)
    /\ last' = [ev |-> "labels.update", updates |-> updates]

\* fromJSON(json)
Restore(json) ==
    /\ \E s2 \in {fromJSON(Store, json)} :
            LabelsWithinBound(s2) /\ ListsWithinBound(s2) /\ Becomes(s2)
    /\ last' = [ev |-> "fromJSON", json |-> json]

\* The patches of labels.update: the edited label under either name.
LabelPatches == {[id |-> EditedLabelId, name |-> n] : n \in LabelNames}

NextLabels ==
    \/ \E label \in IncomingLabels, d \in OptField("deleted", {TRUE}) :
            LabelsEdit(label @@ d)
    \/ \E newLabels \in IncomingLabelLists : LabelsUpsert(newLabels)
    \/ \E update \in LabelPatches : LabelsUpdate(<<update>>)
    \/ \E newLabels \in IncomingLabelLists :
            Restore([labels |-> newLabels])

SpecLabels == Init /\ [][NextLabels]_vars

\* The labels of a repository other than the one of the given identifier.
OtherLabels(entityMap, id) == SelectSeq(entityMap, LAMBDA e : e.key # id)

\* C6: a labels.edit of a label not marked deleted stores the label while
\* fewer than 20 labels are held, leaving every other label as it was, and
\* is rejected when 20 are held: no label is evicted and the count stays.
LabelEditCapacity ==
    [][(last'.ev = "labels.edit" /\ ~IsTrue(last'.label, "deleted")) =>
        IF count(labels) < 20
        THEN /\ repoHas(labels', last'.label.id)
             /\ findById(labels', last'.label.id) = last'.label
             /\ OtherLabels(labels', last'.label.id)
                    = OtherLabels(labels, last'.label.id)
        ELSE labels' = labels]_vars

\* The 21st label was edited in with 20 held, and is not stored.
LabelEditCapacityWitness ==
    /\ last.ev = "labels.edit"
    /\ ~IsTrue(last.label, "deleted")
    /\ count(labels) = 20
    /\ ~repoHas(labels, last.label.id)

\* C7: in every reachable state the repository holds at most 20 labels,
\* whichever of labels.edit, labels.upsert, labels.update or a restored
\* snapshot changed it last.
LabelsWithinCap == count(labels) <= 20

(***************************************************************************)
(* The whole store: every collection under its events, and snapshots       *)
(***************************************************************************)

ConnectionUpdate(update) ==
    /\ \E s2 \in {onConnectionUpdate(Store, update)} : Becomes(s2)
    /\ last' = [ev |-> "connection.update", update |-> update]

PresenceUpdate(id, update) ==
    /\ \E s2 \in {onPresenceUpdate(Store, id, update)} : Becomes(s2)
    /\ last' = [ev |-> "presence.update", id |-> id, presences |-> update]

GroupsUpdate(updates) ==
    /\ \E s2 \in {onGroupsUpdate(Store, updates)} : Becomes(s2)
    /\ last' = [ev |-> "groups.update", updates |-> updates]

LabelsAssociation(type, association) ==
    /\ \E s2 \in {onLabelsAssociation(Store, type, association)} : Becomes(s2)
    /\ last' = [ev |-> "labels.association", type |-> type,
                association |-> association]

GroupJid == "3@g.us"

StoreMessages ==
    {[key |-> [remoteJid |-> StatusJid, id |-> "m1"], status |-> 1],
     [key |-> [remoteJid |-> StatusJid, id |-> "m2"]]}

\* Patches of a message whose key names an identity.
StoreUpdates ==
    {[key |-> [remoteJid |-> StatusJid, id |-> i],
      update |-> [key |-> [remoteJid |-> StatusJid, id |-> j]]] :
        i, j \in DictIds}

StoreAssociation ==
    [type |-> "label_jid", chatId |-> StatusJid, labelId |-> LabelId(1)]

StoreChat == [id |-> StatusJid, conversationTimestamp |-> 1]

StoreContact == [id |-> StatusJid, name |-> "a"]

StoreConnection == [connection |-> "open"]

StorePresence == StatusJid :> [lastKnownPresence |-> "available"]

StoreGroup == [id |-> GroupJid, subject |-> "s"]

StoreLabel == [id |-> LabelId(1), name |-> "a"]

NextStore ==
    \/ ChatsUpsert(<<StoreChat>>)
    \/ ContactsUpsert(<<StoreContact>>)
    \/ \E msg \in StoreMessages : MessagesUpsert(<<msg>>, "append")
    \/ \E u \in StoreUpdates : MessagesUpdate(<<u>>)
    \/ ConnectionUpdate(StoreConnection)
    \/ PresenceUpdate(GroupJid, StorePresence)
    \/ GroupsUpdate(<<StoreGroup>>)
    \/ LabelsEdit(StoreLabel)
    \/ \E type \in {"add", "remove"} :
            LabelsAssociation(type, StoreAssociation)

SpecStore == Init /\ [][NextStore]_vars

\* What the exposed reads of a store answer; loadMessage for every chat
\* and message identifier of the model.
Reads(s) ==
    [chats |-> s.chats,
     loadMessage |-> [jid \in ChatIds, id \in DictIds |->
                        loadMessage(s, jid, id)],
     contacts |-> s.contacts,
     groupMetadata |-> s.groupMetadata,
     presences |-> s.presences,
     state |-> s.state,
     labels |-> findAll(s.labels),
     labelAssociations |-> s.labelAssociations]

\* C8: for every reachable state, the snapshot toJSON() gives, restored
\* with fromJSON into a new store, makes a store whose reads (the chats in
\* order, loadMessage, contacts, group metadata, presences, connection
\* state, labels, label associations) answer as the first store's do.
SnapshotRoundTrip ==
    Reads(fromJSON(makeInMemoryStore, toJSON(Store))) = Reads(Store)

(***************************************************************************)
(* The label repository filled past its capacity by labels.upsert          *)
(***************************************************************************)

\* The most label identifiers the model hands out.
MaxRepoIds == 1003

\* The number after the newest identifier handed out: the entries keep
\* their insertion order, and the newest is never evicted.
NextRepoId ==
    IF labels = <<>> THEN 1
    ELSE 1 + (CHOOSE n \in 1..MaxRepoIds : LabelId(n) = labels[Len(labels)].key)

\* The labels labels.upsert carries: a label not seen before, and the
\* oldest stored label under either name.
RepoLabels ==
    (IF NextRepoId <= MaxRepoIds
     THEN {[id |-> LabelId(NextRepoId), name |-> "a"]} ELSE {})
        \cup (IF labels # <<>>
              THEN {[id |-> labels[1].key, name |-> n] : n \in LabelNames}
              ELSE {})

\* labels.upsert of one label, the repository free to grow
RepoUpsert(label) ==
    /\ \E s2 \in {onLabelsUpsert(Store, <<label>>)} : Becomes(s2)
    /\ last' = [ev |-> "labels.upsert", labels |-> <<label>>]

NextRepo == \E label \in RepoLabels : RepoUpsert(label)

SpecRepo == Init /\ [][NextRepo]_vars

\* labels is what is left of entries once its oldest are dropped.
NewestOf(entries) ==
    /\ Len(labels') <= Len(entries)
    /\ labels' = SubSeq(entries, Len(entries) - Len(labels') + 1, Len(entries))

\* C12: an upsertById leaves at most 1000 entries, the upserted one among
\* them; the upsert of the 1001st distinct identity leaves at most
\* 1000 - 500 + 1 entries, the ones evicted being the oldest by insertion
\* order; any other upsert evicts nothing.
RepositoryEvictsOldest ==
    [][last'.ev = "labels.upsert" =>
        LET label == last'.labels[1]
            entries == mapSet(labels, label.id, label)
        IN  /\ count(labels') <= 1000
            /\ repoHas(labels', label.id)
            /\ findById(labels', label.id) = label
            /\ NewestOf(entries)
            /\ IF ~repoHas(labels, label.id) /\ count(labels) = 1000
               THEN count(labels') <= 1000 - 500 + 1
               ELSE labels' = entries]_vars

\* The 1001st label has just been upserted: the 500 newest are left.
RepositoryEvictsOldestWitness ==
    /\ last.ev = "labels.upsert"
    /\ last.labels[1].id = LabelId(1001)
    /\ count(labels) = 500
    /\ labels[1].key = LabelId(502)
    /\ labels[500].key = LabelId(1001)

(***************************************************************************)
(* Identifiers encoded and decoded                                         *)
(***************************************************************************)

\* The largest device and agent number the model encodes.
MaxDevice == 10

JidUsers == {"1", "23"}

JidServers == {"s.whatsapp.net", "lid", "hosted", "hosted.lid"}

\* A number argument left out, or one of 0..MaxDevice.
OptNumber == {{}} \cup {{n} : n \in 0..MaxDevice}

\* The agents: none, 0, 1 and the largest.
JidAgents == {{}, {0}, {1}, {MaxDevice}}

JidParts ==
    [user : JidUsers, server : JidServers, device : OptNumber,
     agent : JidAgents]

\* jidDecode(jidEncode(user, server, device, agent))
JidEncodeDecode(parts) ==
    /\ last' = [ev |-> "jidDecode", parts |-> parts,
                decoded |-> jidDecode(jidEncode(parts.user, parts.server,
                                                parts.device, parts.agent))]
    /\ od' = od
    /\ StoreUnchanged

NextJid == \E parts \in JidParts : JidEncodeDecode(parts)

SpecJid == Init /\ [][NextJid]_vars

\* C13: jidDecode(jidEncode(user, server, device, agent)) has the user, the
\* server and the device given (0 included), and as domain type the fixed
\* value of the servers lid, hosted and hosted.lid, else the agent when one
\* is given, else the default.
JidRoundTrip ==
    last.ev = "jidDecode" =>
        /\ last.decoded.user = last.parts.user
        /\ last.decoded.server = last.parts.server
        /\ last.decoded.device = last.parts.device
        /\ last.decoded.domainType =
            IF last.parts.server = "lid" THEN 1
            ELSE IF last.parts.server = "hosted" THEN 128
            ELSE IF last.parts.server = "hosted.lid" THEN 129
            ELSE IF last.parts.agent # {}
            THEN CHOOSE n \in last.parts.agent : TRUE
            ELSE 0

(***************************************************************************)
(* Reads that fetch on a miss                                              *)
(***************************************************************************)

\* The most calls the model has suspended at once.
MaxTasks == 2

FetchJids == {"1@s.whatsapp.net", "2@s.whatsapp.net"}

\* What profilePictureUrl answers: no picture, or a URL.
PictureOutcomes == {{}, {"u1"}}

\* What the socket's groupMetadata answers: nothing, or the metadata.
GroupOutcomes ==
    {{}, {[id |-> "3@g.us", subject |-> "s",
           participants |-> <<[id |-> "1@s.whatsapp.net"]>>]}}

FetchGroupJids == {"3@g.us"}

\* The suspended calls without the i-th, which has returned.
Settled(ts, i) == SubSeq(ts, 1, i - 1) \o SubSeq(ts, i + 1, Len(ts))

\* fetchImageUrl(jid) up to its return or its await.
FetchImageUrl(jid) ==
    LET id == jidNormalizedUser(jid)
        known == id \in DOMAIN contacts
        miss == ~known \/ ~Has(contacts[id], "imgUrl")
    IN  /\ miss => Len(tasks) < MaxTasks
        /\ tasks' =
             IF ~known
             THEN Append(tasks, [kind |-> "fetchImageUrl", id |-> id])
             ELSE IF miss
             THEN Append(tasks, [kind |-> "fetchImageUrl", id |-> id,
                                 contact |-> id, orphan |-> {}])
             ELSE tasks
        /\ completed' = IF miss THEN completed ELSE completed \cup {id}
        /\ last' = [ev |-> "fetchImageUrl", id |-> id, fetch |-> miss,
                    cached |-> id \in completed]
        /\ od' = od
        /\ Installs(Store)

\* profilePictureUrl has answered the i-th call, a fetchImageUrl: the
\* contact it holds, if any, takes the outcome, and the call returns.
ImageUrlFetched(i, outcome) ==
    /\ tasks[i].kind = "fetchImageUrl"
    /\ contacts' =
         IF Has(tasks[i], "contact") /\ tasks[i].orphan = {}
         THEN Put(contacts, tasks[i].contact,
                  setImgUrl(contacts[tasks[i].contact], outcome))
         ELSE contacts
    /\ tasks' = Settled(tasks, i)
    /\ completed' = completed \cup {tasks[i].id}
    /\ last' = [ev |-> "fetchImageUrl.return", id |-> tasks[i].id,
                result |-> outcome]
    /\ UNCHANGED <<chats, messages, groupMetadata, presences, state,
                   labels, labelAssociations, od>>

\* fetchGroupMetadata(jid) up to its return or its await.
FetchGroupMetadata(jid) ==
    LET id == jidNormalizedUser(jid)
        miss == id \notin DOMAIN groupMetadata
    IN  /\ miss => Len(tasks) < MaxTasks
        /\ tasks' =
             IF miss
             THEN Append(tasks, [kind |-> "fetchGroupMetadata", id |-> id])
             ELSE tasks
        /\ last' = [ev |-> "fetchGroupMetadata", id |-> id, fetch |-> miss]
        /\ od' = od
        /\ completed' = completed
        /\ Installs(Store)

\* The socket's groupMetadata has answered the i-th call, a
\* fetchGroupMetadata: metadata is stored, undefined is not.
GroupMetadataFetched(i, outcome) ==
    /\ tasks[i].kind = "fetchGroupMetadata"
    /\ groupMetadata' =
         IF outcome = {} THEN groupMetadata
         ELSE Put(groupMetadata, tasks[i].id, CHOOSE g \in outcome : TRUE)
    /\ tasks' = Settled(tasks, i)
    /\ last' = [ev |-> "fetchGroupMetadata.return", id |-> tasks[i].id,
                result |-> outcome]
    /\ UNCHANGED <<chats, messages, contacts, presences, state, labels,
                   labelAssociations, od, completed>>

FetchContacts == {<<[id |-> j]>> : j \in FetchJids}

NextFetch ==
    \/ \E newContacts \in FetchContacts : ContactsUpsert(newContacts)
    \/ \E jid \in FetchJids : FetchImageUrl(jid)
    \/ \E i \in DOMAIN tasks, outcome \in PictureOutcomes :
            ImageUrlFetched(i, outcome)
    \/ \E jid \in FetchGroupJids : FetchGroupMetadata(jid)
    \/ \E i \in DOMAIN tasks, outcome \in GroupOutcomes :
            GroupMetadataFetched(i, outcome)

SpecFetch == Init /\ [][NextFetch]_vars

\* C14: once a fetchImageUrl call for an identifier has completed, a later
\* fetchImageUrl call for that identifier answers from the store, without
\* invoking profilePictureUrl again.
ImageUrlCached ==
    [][(last'.ev = "fetchImageUrl" /\ last'.cached) => ~last'.fetch]_vars

\* The calls suspended in a fetch of the given kind for the identifier.
Outstanding(kind, id) ==
    {i \in DOMAIN tasks : tasks[i].kind = kind /\ tasks[i].id = id}

\* C15: fetchImageUrl and fetchGroupMetadata never have two fetches
\* outstanding at once for one identifier.
OneFetchPerIdentifier ==
    \A kind \in {"fetchImageUrl", "fetchGroupMetadata"} :
        \A id \in FetchJids \cup FetchGroupJids :
            Cardinality(Outstanding(kind, id)) <= 1

(***************************************************************************)
(* Restore from partial snapshots                                          *)
(***************************************************************************)

RestoreKeys ==
    {"chats", "contacts", "messages", "groupMetadata", "presences", "state",
     "labels", "labelAssociations"}

\* A snapshot with every key, of entities other than those the events of
\* the model bring.
RestoreSnapshot ==
    [chats |-> <<[id |-> OtherJid, conversationTimestamp |-> 2]>>,
     contacts |-> OtherJid :> [id |-> OtherJid, name |-> "b"],
     messages |-> OtherJid :>
                    <<[key |-> [remoteJid |-> OtherJid, id |-> "m2"]]>>,
     groupMetadata |-> GroupJid :> StoreGroup,
     presences |-> OtherJid :>
                    (OtherJid :> [lastKnownPresence |-> "unavailable"]),
     state |-> [connection |-> "connecting"],
     labels |-> <<[id |-> LabelId(2), name |-> "b"]>>,
     labelAssociations |->
        <<[type |-> "label_jid", chatId |-> OtherJid,
           labelId |-> LabelId(2)]>>]

\* The key sets of the snapshots: none, one, all but one, all.
RestoreKeySets ==
    {K \in SUBSET RestoreKeys : Cardinality(K) \in {0, 1, 7, 8}}

\* What fromJSON is called with: undefined, or a snapshot of some keys.
RestoreSnapshots ==
    {{}} \cup {{[k \in K |-> RestoreSnapshot[k]]} : K \in RestoreKeySets}

RestoreIfAny(snapshot) ==
    /\ \E s2 \in {fromJSONIfAny(Store, snapshot)} : Becomes(s2)
    /\ last' = [ev |-> "fromJSON", snapshot |-> snapshot]

RestoreMessage == [key |-> [remoteJid |-> StatusJid, id |-> "m1"]]

NextRestore ==
    \/ ChatsUpsert(<<StoreChat>>)
    \/ ContactsUpsert(<<StoreContact>>)
    \/ MessagesUpsert(<<RestoreMessage>>, "append")
    \/ ConnectionUpdate(StoreConnection)
    \/ LabelsEdit(StoreLabel)
    \/ \E snapshot \in RestoreSnapshots : RestoreIfAny(snapshot)

SpecRestore == Init /\ [][NextRestore]_vars

\* The top-level keys of what fromJSON was called with.
KeysOf(snapshot) ==
    IF snapshot = {} THEN {} ELSE DOMAIN (CHOOSE json \in snapshot : TRUE)

\* C16: fromJSON leaves as it was every collection (chats, contacts,
\* messages, groupMetadata, presences, state, labels, labelAssociations)
\* whose key the snapshot lacks, and the whole store when the snapshot is
\* absent.
RestoreTouchesPresentKeys ==
    [][(last'.ev = "fromJSON" /\ Has(last', "snapshot")) =>
            \A k \in RestoreKeys \ KeysOf(last'.snapshot) :
                Store'[k] = Store[k]]_vars

\* A populated store has just been restored from a snapshot of the
\* contacts alone.
RestoreTouchesPresentKeysWitness ==
    /\ last.ev = "fromJSON"
    /\ Has(last, "snapshot")
    /\ KeysOf(last.snapshot) = {"contacts"}
    /\ DOMAIN contacts = {StatusJid, OtherJid}
    /\ Len(chats) = 1
    /\ DOMAIN messages = {StatusJid}
    /\ state.connection = "open"
    /\ DOMAIN presences = {OtherJid}
    /\ count(labels) = 2
    /\ Len(labelAssociations) = 1

(***************************************************************************)
(* contacts.update and group-participants.update as events                 *)
(***************************************************************************)

\* ev.on('contacts.update') up to its end, its first await or a throw.
ContactsUpdate(updates) ==
    LET r == contactsUpdateFrom(contacts, updates)
        suspended ==
            IF r.awaits = {} THEN tasks
            ELSE Append(tasks,
                        [kind |-> "contacts.update",
                         contact |-> (CHOOSE a \in r.awaits : TRUE).contact,
                         orphan |-> {},
                         rest |-> (CHOOSE a \in r.awaits : TRUE).rest])
    IN  /\ r.awaits # {} => Len(tasks) < MaxTasks
        /\ Installs([Store EXCEPT !.contacts = r.contacts])
        /\ tasks' = Orphaned(suspended, r.contacts)
        /\ completed' = completed
        /\ od' = od
        /\ last' = [ev |-> "contacts.update", updates |-> updates,
                    raised |-> r.raised, before |-> contacts]

\* profilePictureUrl has answered the i-th call, a contacts.update: the
\* handler goes on from line 155 to its end, its next await or a throw.
ProfilePictureFetched(i, outcome) ==
    /\ tasks[i].kind = "contacts.update"
    /\ LET t == tasks[i]
           held == t.orphan = {}
           contact == IF held THEN contacts[t.contact]
                      ELSE CHOOSE o \in t.orphan : TRUE
           r == contactsUpdateResume(contacts, t.contact, contact, held,
                                     outcome, t.rest)
           suspended ==
               IF r.awaits = {} THEN Settled(tasks, i)
               ELSE [tasks EXCEPT ![i] =
                        [kind |-> "contacts.update",
                         contact |-> (CHOOSE a \in r.awaits : TRUE).contact,
                         orphan |-> {},
                         rest |-> (CHOOSE a \in r.awaits : TRUE).rest]]
       IN  /\ Installs([Store EXCEPT !.contacts = r.contacts])
           /\ tasks' = Orphaned(suspended, r.contacts)
           /\ last' = [ev |-> "contacts.update", resumed |-> t.contact,
                       updates |-> t.rest, outcome |-> outcome,
                       held |-> held, raised |-> r.raised,
                       before |-> contacts]
    /\ completed' = completed
    /\ od' = od

\* The most participants the model lets a group grow to.
MaxParticipants == 2

\* ev.on('group-participants.update')
GroupParticipantsUpdate(p) ==
    LET r == onGroupParticipantsUpdate(groupMetadata, p.id, p.participants,
                                       p.action)
    IN  /\ \A g \in r : \A id \in DOMAIN g :
                Has(g[id], "participants") =>
                    Len(g[id].participants) <= MaxParticipants
        /\ Becomes([Store EXCEPT !.groupMetadata =
                        IF r = {} THEN groupMetadata
                        ELSE CHOOSE g \in r : TRUE])
        /\ last' = [ev |-> "group-participants.update", p |-> p,
                    raised |-> r = {}]

\* Whether the handler of the event threw.
Raised(e) == Has(e, "raised") /\ e.raised

(***************************************************************************)
(* Updates for entities the store does not hold                            *)
(***************************************************************************)

UnknownChatPatches == {[id |-> j, name |-> "n"] : j \in ChatIds}

UnknownMessagePatches ==
    {[key |-> [remoteJid |-> j, id |-> i], update |-> [status |-> 2]] :
        j \in ChatIds, i \in DictIds}

\* Patches of a contact by identifier and by hash.
UnknownContactPatches ==
    {[id |-> j, name |-> "n"] : j \in ChatIds \cup {"OW+", "gpv"}}

UnknownLabelPatches == {[id |-> LabelId(n), name |-> "b"] : n \in {1, 2}}

UnknownGroupEvents ==
    {[id |-> g, participants |-> <<"2@s.whatsapp.net">>, action |-> a] :
        g \in {GroupJid, "4@g.us"}, a \in {"add", "remove"}}

NextUnknown ==
    \/ ChatsUpsert(<<StoreChat>>)
    \/ ContactsUpsert(<<StoreContact>>)
    \/ MessagesUpsert(<<RestoreMessage>>, "append")
    \/ LabelsEdit(StoreLabel)
    \/ \E jid \in FetchGroupJids : FetchGroupMetadata(jid)
    \/ \E i \in DOMAIN tasks, outcome \in GroupOutcomes :
            GroupMetadataFetched(i, outcome)
    \/ \E update \in UnknownChatPatches : ChatsUpdate(<<update>>)
    \/ \E jid \in ChatIds : ChatsDelete(<<jid>>)
    \/ \E update \in UnknownMessagePatches : MessagesUpdate(<<update>>)
    \/ \E update \in UnknownContactPatches : ContactsUpdate(<<update>>)
    \/ \E update \in UnknownLabelPatches : LabelsUpdate(<<update>>)
    \/ \E p \in UnknownGroupEvents : GroupParticipantsUpdate(p)

SpecUnknown == Init /\ [][NextUnknown]_vars

\* The event e is an update, and every entity it names is one the store
\* does not hold.
RefersToUnknown(e) ==
    IF Has(e, "resumed") THEN FALSE
    ELSE IF e.ev = "chats.update"
    THEN \A i \in 1..Len(e.updates) : e.updates[i].id \notin IdsOf(chats)
    ELSE IF e.ev = "chats.delete"
    THEN \A i \in 1..Len(e.deletions) : e.deletions[i] \notin IdsOf(chats)
    ELSE IF e.ev = "messages.update"
    THEN \A i \in 1..Len(e.updates) :
            LET jid == jidNormalizedUser(e.updates[i].key.remoteJid)
            IN  \/ jid \notin DOMAIN messages
                \/ ~odHas(messages[jid], e.updates[i].key.id)
    ELSE IF e.ev = "contacts.update"
    THEN \A i \in 1..Len(e.updates) : contactFor(contacts, e.updates[i]) = {}
    ELSE IF e.ev = "labels.update"
    THEN \A i \in 1..Len(e.updates) : ~repoHas(labels, e.updates[i].id)
    ELSE IF e.ev = "group-participants.update"
    THEN e.p.id \notin DOMAIN groupMetadata
    ELSE FALSE

\* C17: an update event (chats.update, chats.delete, messages.update,
\* contacts.update, labels.update, group-participants.update) that names
\* only entities the store does not hold raises nothing and leaves the
\* snapshot toJSON() gives as it was.
UnknownUpdatesDropped ==
    [][RefersToUnknown(last') =>
            /\ ~Raised(last')
            /\ toJSON(Store') = toJSON(Store)]_vars

(***************************************************************************)
(* contacts.update among syncs                                             *)
(***************************************************************************)

\* Patches of the contact StatusJid, by identifier and by hash.
LivePatches ==
    {[id |-> StatusJid, name |-> "n"],
     [id |-> StatusJid, imgUrl |-> "changed"],
     [id |-> "OW+", imgUrl |-> "removed"],
     [id |-> "OW+", status |-> "s"]}

LivePatchLists ==
    Batches(LivePatches,
            {[id |-> StatusJid, imgUrl |-> "changed"],
             [id |-> StatusJid, name |-> "n"]})

\* The payloads of messaging-history.set: no contact, another contact, or
\* the contact the patches are for.
LiveSyncEvents ==
    {[chats |-> <<>>, contacts |-> cs, messages |-> <<>>,
      isLatest |-> isLatest, syncType |-> "RECENT"] :
        cs \in {<<>>, <<[id |-> OtherJid]>>, <<StoreContact>>},
        isLatest \in BOOLEAN}

NextLive ==
    \/ ContactsUpsert(<<StoreContact>>)
    \/ \E updates \in LivePatchLists : ContactsUpdate(updates)
    \/ \E i \in DOMAIN tasks, outcome \in PictureOutcomes :
            ProfilePictureFetched(i, outcome)
    \/ \E p \in LiveSyncEvents : HistorySet(p)

SpecLive == Init /\ [][NextLive]_vars

\* C18: every handler runs to its end without raising an error, whatever
\* the events and their interleaving, a contacts.update resumed after a
\* sync with isLatest has removed its contact included.
HandlersComplete == ~Raised(last)

\* C19: after a contacts.update of one patch for a contact the store holds
\* (under the patch's id or under its hash), the contact has every field of
\* the patch but the imgUrl sentinels, and its other fields as they were.
ContactPatchMerged ==
    [][(/\ last'.ev = "contacts.update"
        /\ ~Has(last', "resumed")
        /\ Len(last'.updates) = 1
        /\ contactFor(contacts, last'.updates[1]) # {}
        /\ ~(/\ Has(last'.updates[1], "imgUrl")
             /\ last'.updates[1].imgUrl = "changed"))
       => LET update == last'.updates[1]
              key == CHOOSE k \in contactFor(contacts, update) : TRUE
              sentinel == /\ Has(update, "imgUrl")
                          /\ update.imgUrl \in {"changed", "removed"}
              patched == IF sentinel THEN DOMAIN update \ {"imgUrl"}
                         ELSE DOMAIN update
          IN  /\ key \in DOMAIN contacts'
              /\ \A f \in patched :
                    /\ Has(contacts'[key], f)
                    /\ contacts'[key][f] = update[f]
              /\ \A f \in DOMAIN contacts[key] \ DOMAIN update :
                    /\ Has(contacts'[key], f)
                    /\ contacts'[key][f] = contacts[key][f]]_vars

(***************************************************************************)
(* The order of a chat's message list                                      *)
(***************************************************************************)

\* The batches of messages.upsert: one message, without a status.
OrderMessageLists ==
    Batches({m \in StatusMessages : ~Has(m, "status")}, {})

\* The payloads of messaging-history.set: messages alone.
OrderSyncEvents ==
    {[chats |-> <<>>, contacts |-> <<>>, messages |-> ms,
      isLatest |-> isLatest, syncType |-> syncType] :
        ms \in SyncMessageLists, isLatest \in BOOLEAN,
        syncType \in SyncTypes}

NextOrder ==
    \/ \E newMessages \in OrderMessageLists, type \in {"append", "notify"} :
            MessagesUpsert(newMessages, type)
    \/ \E u \in StoreUpdates : MessagesUpdate(<<u>>)
    \/ \E p \in OrderSyncEvents : HistorySet(p)

SpecOrder == Init /\ [][NextOrder]_vars

\* The list new is the list old with the messages of added identities put
\* before it (a sync) or after it (messages.upsert): the messages of old
\* are where they were, under their identities, and no added message has
\* an identity old held.
OrderKept(old, new, sync) ==
    LET n == Len(new) - Len(old)
    IN  /\ n >= 0
        /\ LET kept == IF sync THEN SubSeq(new, n + 1, Len(new))
                       ELSE SubSeq(new, 1, Len(old))
               added == IF sync THEN SubSeq(new, 1, n)
                        ELSE SubSeq(new, Len(old) + 1, Len(new))
           IN  /\ \A i \in 1..Len(old) :
                    waMessageID(kept[i]) = waMessageID(old[i])
               /\ \A i \in 1..n : \A j \in 1..Len(old) :
                    waMessageID(added[i]) # waMessageID(old[j])

\* C20: in every chat's list, a messaging-history.set puts the messages it
\* inserts before all those the list held before it, a messages.upsert puts
\* the messages it inserts after all those the list held, a message whose
\* identity the list holds keeps its position, and the stored messages keep
\* their relative order.
MessageOrderKept ==
    [][last'.ev \in {"messages.upsert", "messaging-history.set"} =>
        \A jid \in DOMAIN messages' :
            LET sync == last'.ev = "messaging-history.set"
                cleared == /\ sync
                           /\ last'.p.isLatest
                           /\ last'.p.syncType # "ON_DEMAND"
                old == IF jid \in DOMAIN messages /\ ~cleared
                       THEN messages[jid].array ELSE <<>>
            IN  OrderKept(old, messages'[jid].array, sync)]_vars

(***************************************************************************)
(* messages.upsert in notify mode                                          *)
(***************************************************************************)

\* Chat identifiers as messages carry them: canonical, with a device, and
\* of the legacy domain.
NotifyJids == {"1@s.whatsapp.net", "1:2@s.whatsapp.net", "2@c.us"}

NotifyMessages ==
    {[key |-> [remoteJid |-> j, id |-> "m1"]] @@ t :
        j \in NotifyJids, t \in OptField("messageTimestamp", {5})}

NotifyMessageLists ==
    Batches(NotifyMessages, {m \in NotifyMessages : Has(m, "messageTimestamp")})

\* A chat that has been read about: its unread count is not 1.
NotifyChat ==
    [id |-> "1@s.whatsapp.net", conversationTimestamp |-> 1, unreadCount |-> 3]

NextNotify ==
    \/ ChatsUpsert(<<NotifyChat>>)
    \/ \E jid \in ChatIds : ChatsDelete(<<jid>>)
    \/ \E newMessages \in NotifyMessageLists, type \in {"append", "notify"} :
            MessagesUpsert(newMessages, type)

SpecNotify == Init /\ [][NextNotify]_vars

\* The first message of the batch whose chat is jid.
FirstFor(newMessages, jid) ==
    newMessages[CHOOSE i \in 1..Len(newMessages) :
        /\ jidNormalizedUser(newMessages[i].key.remoteJid) = jid
        /\ \A k \in 1..(i - 1) :
                jidNormalizedUser(newMessages[k].key.remoteJid) # jid]

\* C21: a messages.upsert of type notify synthesizes, for each chat of the
\* batch that the chat collection lacks, exactly one chats.upsert, of that
\* chat's identifier, the timestamp of the message and unreadCount 1, and
\* none for a chat that exists: afterwards every message of the batch has
\* its chat, and the chats that existed are as they were. Of type append it
\* synthesizes none and leaves the chats as they were.
NotifySynthesizesChats ==
    [][last'.ev = "messages.upsert" =>
        LET newMessages == last'.messages
            emitted == synthesizedChats(Store, newMessages, last'.type)
            jids == {jidNormalizedUser(newMessages[i].key.remoteJid) :
                        i \in 1..Len(newMessages)}
            absent == jids \ IdsOf(chats)
        IN  IF last'.type = "notify"
            THEN /\ \A jid \in absent :
                        \E k \in 1..Len(emitted) :
                            /\ emitted[k] =
                                [id |-> jid,
                                 conversationTimestamp |->
                                    messageTime(FirstFor(newMessages, jid)),
                                 unreadCount |-> 1]
                            /\ \A n \in 1..Len(emitted) :
                                    emitted[n].id = jid => n = k
                 /\ \A k \in 1..Len(emitted) : emitted[k].id \in absent
                 /\ jids \subseteq IdsOf(chats')
                 /\ \A i \in 1..Len(chats) :
                        kdbGet(chats', chats[i].id) = chats[i]
                 /\ \A jid \in absent :
                        /\ kdbGet(chats', jid).unreadCount = 1
                        /\ kdbGet(chats', jid).conversationTimestamp =
                                messageTime(FirstFor(newMessages, jid))
            ELSE emitted = <<>> /\ chats' = chats]_vars

\* A notify batch of two messages, one of a chat that existed and one of a
\* chat that did not, has just been stored.
NotifySynthesizesChatsWitness ==
    /\ last.ev = "messages.upsert"
    /\ last.type = "notify"
    /\ Len(last.messages) = 2
    /\ last.messages[1].key.remoteJid = "1:2@s.whatsapp.net"
    /\ last.messages[2].key.remoteJid = "2@c.us"
    /\ Len(chats) = 2
    /\ kdbGet(chats, "1@s.whatsapp.net") = NotifyChat
    /\ kdbGet(chats, "2@s.whatsapp.net").unreadCount = 1
    /\ kdbGet(chats, "2@s.whatsapp.net").conversationTimestamp = 5

(***************************************************************************)
(* One message list per chat                                               *)
(***************************************************************************)

\* One chat's identifier: canonical, with a device, and of the legacy
\* domain.
PartitionJids == {"1@s.whatsapp.net", "1:2@s.whatsapp.net", "1@c.us"}

PartitionMessages ==
    {[key |-> [remoteJid |-> j, id |-> i]] :
        j \in PartitionJids, i \in DictIds}

\* The payloads of messaging-history.set: one message.
PartitionSyncEvents ==
    {[chats |-> <<>>, contacts |-> <<>>, messages |-> <<m>>,
      isLatest |-> isLatest, syncType |-> "RECENT"] :
        m \in PartitionMessages, isLatest \in BOOLEAN}

\* Patches of the status of a message, under each form of its chat.
PartitionUpdates ==
    {[key |-> m.key, update |-> [status |-> 2]] : m \in PartitionMessages}

NextPartition ==
    \/ \E m \in PartitionMessages : MessagesUpsert(<<m>>, "append")
    \/ \E u \in PartitionUpdates : MessagesUpdate(<<u>>)
    \/ \E p \in PartitionSyncEvents : HistorySet(p)

SpecPartition == Init /\ [][NextPartition]_vars

\* The forms of the chat identifier jid: those of the model that normalize
\* to what jid normalizes to.
FormsOf(jid) ==
    {f \in PartitionJids \cup {jid} :
        jidNormalizedUser(f) = jidNormalizedUser(jid)}

\* C22: every message a list holds is what loadMessage answers for its
\* message identifier under every form of the chat identifier it was stored
\* under (so that messages.update, which looks it up the same way, reaches
\* it), and no two lists are of the same chat.
MessagesInOnePartition ==
    /\ \A jid \in DOMAIN messages : \A i \in 1..Len(messages[jid].array) :
            \A f \in FormsOf(jid) :
                loadMessage(Store, f, waMessageID(messages[jid].array[i]))
                    = {messages[jid].array[i]}
    /\ \A j1, j2 \in DOMAIN messages :
            jidNormalizedUser(j1) = jidNormalizedUser(j2) => j1 = j2

====
